---- MODULE Spec2Model ----
(***************************************************************************)
(* A top-to-bottom run of 03-Intro-to-GIS/03a_Intro_to_GIS_Revised.py      *)
(* under IPython (the file is a notebook export: it calls get_ipython()).  *)
(* The program is straight-line: Prog lists its statements in source       *)
(* order, pc is the statement about to run, and there is one action per    *)
(* kind of statement.  The inputs (archive, shapefile contents, GeoJSON    *)
(* file, network, working directory) are chosen in Init and fixed for the  *)
(* run.  Imports (lines 14-18, 32, 305) are taken to succeed.              *)
(***************************************************************************)
EXTENDS Integers, Sequences, FiniteSets, TLC

VARIABLES pc, status, raisedAt, trace, env, frames, pyvars, ax, maps,
          created, written, overlays, shellExit, warnings

vars == <<pc, status, raisedAt, trace, env, frames, pyvars, ax, maps,
          created, written, overlays, shellExit, warnings>>

\* Largest number of rows of the input shapefile that is explored.
MaxRows == 21

\* data[0:20], line 404
SelectionStop == 20

Min(a, b) == IF a < b THEN a ELSE b

CRSTags == {"none", "4326", "3857"}

ArchivePath == "phl_ica_floodrisk_geonode_mar2014.zip"
ShpDir      == "philippines_flood_risk"
ShpPath     == "philippines_flood_risk/phl_ica_floodrisk_geonode_mar2014.shp"
HealthPath  == "philippines_healthsites.geojson"
OutDir      == "output_data"
SelPath     == "output_data/data_selection.json"
MitPath     == "output_data/MIT_campus.shp"

NoFrame == [rows |-> <<>>, crs |-> "undefined", cols |-> {}, tsType |-> "undefined"]

\* One statement of the program.  frame: the frame variable it reads;
\* arg: what it does with it; crs: a CRS argument; dst: the variable assigned.
St(line, op, frame, arg, crs, dst) ==
  [line |-> line, op |-> op, frame |-> frame, arg |-> arg, crs |-> crs, dst |-> dst]

ProgLoad ==
  << St(48,  "system",    "",     "unzip",     "", ""),
     St(55,  "assign",    "",     ShpPath,     "", "filepath"),
     St(58,  "read_file", "",     "filepath",  "", "data"),
     St(64,  "inspect",   "data", "head",      "", ""),
     St(70,  "inspect",   "data", "columns",   "", ""),
     St(77,  "inspect",   "data", "iloc0",     "", ""),
     St(85,  "inspect",   "data", "geometry",  "", ""),
     St(93,  "inspect",   "data", "bounds",    "", ""),
     St(100, "inspect",   "data", "boundary",  "", ""),
     St(130, "inspect",   "data", "crs",       "", ""),
     St(137, "inspect",   "data", "area",      "", ""),
     St(143, "to_crs",    "data", "",          "3857", "data_in_3857"),
     St(144, "inspect",   "data_in_3857", "area", "", "") >>

ProgPlot ==
  << St(169, "plot",        "data", "",           "", "ax"),
     St(179, "plot",        "data", "FloodText",  "", "ax"),
     St(190, "plot",        "data", "FloodClass", "", "ax"),
     St(193, "decorate",    "",     "set_title",  "", ""),
     St(196, "decorate",    "",     "set_xlabel", "", ""),
     St(197, "decorate",    "",     "set_ylabel", "", ""),
     St(199, "decorate",    "",     "show",       "", ""),
     St(211, "inspect",     "data", "crs",        "", ""),
     St(217, "plot",        "data", "FloodText",  "", "ax"),
     St(221, "add_basemap", "data", "",           "frame.crs", ""),
     St(228, "plot",        "data", "FloodText",  "", "ax"),
     St(229, "set_lim",     "",     "literal",    "", ""),
     St(230, "set_lim",     "",     "literal",    "", ""),
     St(231, "add_basemap", "data", "",           "frame.crs", ""),
     St(243, "display",     "",     "ctx.providers", "", ""),
     St(251, "plot",        "data", "FloodText",  "", "ax"),
     St(254, "add_basemap", "data", "",           "frame.crs", ""),
     St(256, "add_basemap", "data", "",           "frame.crs", ""),
     St(264, "total_bounds","data", "",           "", "wsen"),
     St(265, "inspect",     "data", "total_bounds", "", ""),
     St(273, "bounds2img",  "",     "wsen",       "", "img"),
     St(274, "figure",      "",     "",           "", "ax"),
     St(276, "imshow",      "",     "img",        "", ""),
     St(278, "plot",        "data", "",           "3857", ""),
     St(279, "total_bounds","data", "",           "3857", "ax_bounds"),
     St(280, "set_lim",     "",     "ax_bounds",  "", ""),
     St(281, "decorate",    "",     "axis_off",   "", ""),
     St(282, "savefig",     "",     "watercolor_example.png", "", "") >>

ProgExplore ==
  << St(294, "explore",   "data", "FloodClass", "", "m"),
     St(295, "display",   "",     "m",          "", ""),
     St(306, "display",   "",     "xyz",        "", ""),
     St(312, "explore",   "data", "FloodClass", "", ""),
     St(320, "read_file", "",     HealthPath,   "", "health_sites_gdf"),
     St(321, "inspect",   "health_sites_gdf", "show", "", ""),
     St(328, "explore",   "health_sites_gdf", "all",  "", ""),
     St(334, "inspect",   "health_sites_gdf", "dtypes", "", ""),
     St(341, "astype",    "health_sites_gdf", "changeset_timestamp", "", ""),
     St(348, "explore",   "data", "FloodClass", "", "m"),
     St(350, "explore",   "health_sites_gdf", "subset", "m", "m"),
     St(357, "display",   "",     "m",          "", ""),
     St(365, "inspect",   "data", "dissolve_centroid", "", ""),
     St(366, "folium",    "",     "Map",        "", "m"),
     St(369, "explore",   "data", "FloodClass", "m", "m"),
     St(374, "explore",   "health_sites_gdf", "subset", "m", "m"),
     St(383, "folium",    "",     "LayerControl", "", ""),
     St(384, "display",   "",     "m",          "", "") >>

ProgWrite ==
  << St(394, "system",    "",     "mkdir",      "", ""),
     St(401, "assign",    "",     SelPath,      "", "outfp"),
     St(404, "slice",     "data", "",           "", "selection"),
     St(407, "to_file",   "selection", "GeoJSON", "", "") >>

ProgNew ==
  << St(417, "new_frame", "",        "",          "", "newdata"),
     St(420, "setitem",   "newdata", "geometry",  "", ""),
     St(423, "inspect",   "newdata", "print",     "", ""),
     St(433, "polygon",   "",        "",          "", "poly"),
     St(436, "display",   "",        "poly",      "", ""),
     St(443, "setitem",   "newdata", "loc_geometry", "", ""),
     St(444, "inspect",   "newdata", "show",      "", ""),
     St(450, "setitem",   "newdata", "loc_location", "", ""),
     St(451, "inspect",   "newdata", "show",      "", ""),
     St(460, "set_crs",   "newdata", "",          "4326", "newdata"),
     St(463, "inspect",   "newdata", "crs",       "", ""),
     St(469, "assign",    "",        MitPath,     "", "outfp"),
     St(472, "to_file",   "newdata", "",          "", ""),
     St(479, "plot",      "newdata", "",          "3857", "ax"),
     St(480, "add_basemap", "",      "",          "", ""),
     St(481, "decorate",  "",        "axis_off",  "", ""),
     St(482, "savefig",   "",        "MIT_main_campus_poly.png", "", "") >>

\* The last section with newdata plotted and overlaid before it is written:
\* lines 479-482 ahead of lines 469-472.
ProgPlotBeforeWrite ==
  ProgLoad \o ProgPlot \o ProgExplore \o ProgWrite \o SubSeq(ProgNew, 1, 11)
    \o SubSeq(ProgNew, 14, 17) \o SubSeq(ProgNew, 12, 13)

Prog == ProgLoad \o ProgPlot \o ProgExplore \o ProgWrite \o ProgNew

------------------------------------------------------------------------------
(* Library operations, as the calls in the source use them.                 *)

FrameNames == {"data", "data_in_3857", "health_sites_gdf", "selection", "newdata"}

\* The dataset a frame variable belongs to.
DatasetOf(f) ==
  CASE f \in {"data", "data_in_3857", "selection"} -> "data"
    [] f = "health_sites_gdf" -> "health"
    [] f = "newdata" -> "newdata"
    [] OTHER -> "none"

\* Row i of the shapefile; its coordinates are numbers in the system cs.
ShpRow(i, cs) ==
  [fid |-> i, FloodClass |-> i % 4, geom |-> [kind |-> "Polygon", cs |-> cs]]

\* gpd.read_file(filepath), line 58: the rows of the file, tagged with the
\* CRS of its .prj ("none" when the file carries no reference system).
ReadShp(e) ==
  [rows   |-> [i \in 1..e.rows |->
                 ShpRow(i, IF e.shpCrs = "none" THEN "unknown" ELSE e.shpCrs)],
   crs    |-> e.shpCrs,
   cols   |-> {"geometry"} \cup (IF e.floodCols THEN {"FloodText", "FloodClass"} ELSE {}),
   tsType |-> "absent"]

\* gpd.read_file('philippines_healthsites.geojson', driver='GeoJSON'), line 320.
\* GeoJSON coordinates are WGS84; changeset_timestamp is parsed as a datetime.
ReadHealth ==
  [rows   |-> << [fid |-> 1, FloodClass |-> 0, geom |-> [kind |-> "Point", cs |-> "4326"]],
                 [fid |-> 2, FloodClass |-> 0, geom |-> [kind |-> "Point", cs |-> "4326"]] >>,
   crs    |-> "4326",
   cols   |-> {"geometry", "name", "amenity", "addr_street", "addr_city",
               "addr_postcode", "healthcare", "changeset_timestamp"},
   tsType |-> "datetime"]

\* frame.to_crs(c): a new frame whose coordinates are transformed to c.
ToCrs(f, c) ==
  [f EXCEPT !.rows = [i \in DOMAIN f.rows |-> [f.rows[i] EXCEPT !.geom.cs = c]],
            !.crs  = c]

\* set_crs whose result is lost: the frame stays as it was.
SetCrsDropped(f, c) == f

\* frame.set_crs(c): a new frame tagged c; the coordinates are not touched.
SetCrs(f, c) == [f EXCEPT !.crs = c]

\* A slice that takes the stop position too.
PySliceInclusive(seq, start, stop) ==
  IF Min(stop + 1, Len(seq)) <= start THEN <<>>
  ELSE SubSeq(seq, start + 1, Min(stop + 1, Len(seq)))

\* seq[start:stop] for 0 <= start, stop: positions start .. stop-1 that exist.
PySlice(seq, start, stop) ==
  IF Min(stop, Len(seq)) <= start THEN <<>>
  ELSE SubSeq(seq, start + 1, Min(stop, Len(seq)))

\* data[0:20], line 404: the slice keeps columns and CRS.
SelectRows(f) == [f EXCEPT !.rows = PySlice(f.rows, 0, SelectionStop)]

\* The extension of the two output paths.
ExtOf(path) ==
  CASE path = SelPath -> "json"
    [] path = MitPath -> "shp"
    [] OTHER -> "unknown"

\* to_file that ignores driver= and always writes a Shapefile.
ToFileDriverIgnoresArg(s, path) == "ESRI Shapefile"

\* The driver to_file writes with: the driver= argument (line 407), else
\* the one the extension selects (line 472).
ToFileDriver(s, path) ==
  IF s.arg # "" THEN s.arg
  ELSE CASE ExtOf(path) = "shp" -> "ESRI Shapefile"
         [] ExtOf(path) = "json" -> "GeoJSON"
         [] OTHER -> "unknown"

\* add_basemap without its crs= argument: always Web Mercator.
BasemapCrsDefault(s, fr) == "3857"

\* The crs= argument of ctx.add_basemap: crs=data.crs (lines 221, 231, 254,
\* 256) or absent, which is Web Mercator (line 480).
BasemapCrs(s, fr) == IF s.crs = "frame.crs" THEN fr[s.frame].crs ELSE "3857"

\* The frame a plot call draws: the frame itself, or frame.to_crs(epsg=3857)
\* (lines 278, 479).
PlottedFrame(s, fr) == IF s.crs = "" THEN fr[s.frame] ELSE ToCrs(fr[s.frame], s.crs)

CsOf(f) == {f.rows[i].geom.cs : i \in DOMAIN f.rows}

------------------------------------------------------------------------------
(* The working directory.                                                   *)

InputPaths(e) ==
  (IF e.archive THEN {ArchivePath} ELSE {}) \cup
  (IF e.healthFile THEN {HealthPath} ELSE {})

Exists(path) == path \in InputPaths(env) \/ \E c \in created : c.path = path

IsDir(path) == \E c \in created : c.path = path /\ c.format = "directory"

ParentOf(path) == IF path \in {SelPath, MitPath} THEN OutDir ELSE "."

\* What unzip ... -d philippines_flood_risk extracts, line 48.
Extracted(e) ==
  {[path |-> ShpDir, format |-> "directory", by |-> "unzip"],
   [path |-> ShpPath, format |-> "archive member", by |-> "unzip"],
   [path |-> "philippines_flood_risk/phl_ica_floodrisk_geonode_mar2014.dbf",
    format |-> "archive member", by |-> "unzip"],
   [path |-> "philippines_flood_risk/phl_ica_floodrisk_geonode_mar2014.shx",
    format |-> "archive member", by |-> "unzip"]} \cup
  (IF e.shpCrs = "none" THEN {}
   ELSE {[path |-> "philippines_flood_risk/phl_ica_floodrisk_geonode_mar2014.prj",
          format |-> "archive member", by |-> "unzip"]})

\* The files to_file leaves for one path.
ToFileOutputs(path, driver) ==
  IF driver = "ESRI Shapefile"
  THEN {[path |-> path, format |-> driver, by |-> "to_file"],
        [path |-> "output_data/MIT_campus.shx", format |-> driver, by |-> "to_file"],
        [path |-> "output_data/MIT_campus.dbf", format |-> driver, by |-> "to_file"],
        [path |-> "output_data/MIT_campus.prj", format |-> driver, by |-> "to_file"],
        [path |-> "output_data/MIT_campus.cpg", format |-> driver, by |-> "to_file"]}
  ELSE {[path |-> path, format |-> driver, by |-> "to_file"]}

------------------------------------------------------------------------------
(* State.                                                                   *)

NoAx == [defined |-> FALSE, drawn |-> {}, basemaps |-> {}, image |-> "none",
         lim |-> "auto"]
NewAx == [NoAx EXCEPT !.defined = TRUE]

Envs ==
  [archive : BOOLEAN, rows : 0..MaxRows, shpCrs : CRSTags, floodCols : BOOLEAN,
   network : BOOLEAN, healthFile : BOOLEAN, tsBreaksExplore : BOOLEAN,
   outBlocked : BOOLEAN]

Init ==
  /\ pc = 1
  /\ status = "running"
  /\ raisedAt = 0
  /\ trace = <<>>
  /\ env \in Envs
  /\ frames = [f \in FrameNames |-> NoFrame]
  /\ pyvars = [v \in {"filepath", "outfp", "wsen", "ax_bounds", "img", "poly"} |-> "undefined"]
  /\ ax = NoAx
  /\ maps = [defined |-> FALSE, layers |-> <<>>]
  /\ created = {}
  /\ written = {}
  /\ overlays = {}
  /\ shellExit = {}
  /\ warnings = {}

Defined(f) == frames[f] # NoFrame

Entry(s, dss, stage, outcome) ==
  [line |-> s.line, op |-> s.op, dss |-> dss, stage |-> stage, outcome |-> outcome]

\* The statement about to run.
Cur == IF pc <= Len(Prog) THEN Prog[pc] ELSE St(0, "end", "", "", "", "")

At(s, op) == status = "running" /\ pc <= Len(Prog) /\ s = Prog[pc] /\ s.op = op

\* An exception that is swallowed: the run goes on with the next statement.
RaiseSwallowed(s) ==
  /\ status' = "running"
  /\ raisedAt' = s.line
  /\ pc' = pc + 1
  /\ trace' = Append(trace, Entry(s, {}, "none", "raised"))
  /\ UNCHANGED <<env, frames, pyvars, ax, maps, created, written, overlays,
                 shellExit, warnings>>

\* An exception nothing catches: the run ends at the statement that raised.
Raise(s) ==
  /\ status' = "raised"
  /\ raisedAt' = s.line
  /\ pc' = pc
  /\ trace' = Append(trace, Entry(s, {}, "none", "raised"))
  /\ UNCHANGED <<env, frames, pyvars, ax, maps, created, written, overlays,
                 shellExit, warnings>>

\* The statement completed; entries record the pipeline stages it applied.
Ok(entries) ==
  /\ status' = "running"
  /\ raisedAt' = raisedAt
  /\ pc' = pc + 1
  /\ trace' = trace \o entries

------------------------------------------------------------------------------
(* Statements.                                                              *)

\* The pipeline stage a statement applies to a dataset ("none": it is no
\* stage of the pipeline).
LOAD      == "load"
INSPECT   == "inspect"
REPROJECT == "reproject"
RENDER    == "render"
BASEMAP   == "basemap"
EXPORT    == "export"

\* get_ipython().system(cmd), lines 48 and 394: the command's exit status is
\* kept in _exit_code; nothing is raised whatever it is.
ShellExitCode(s) ==
  CASE s.arg = "unzip" -> IF env.archive THEN 0 ELSE 9
    [] s.arg = "mkdir" -> IF env.outBlocked THEN 1 ELSE 0
    [] OTHER -> 127

System ==
  LET s == Cur IN
    /\ At(s, "system")
    /\ shellExit' = shellExit \cup {[line |-> s.line, code |-> ShellExitCode(s)]}
    /\ created' =
         IF ShellExitCode(s) # 0 THEN created
         ELSE IF s.arg = "unzip" THEN created \cup Extracted(env)
         ELSE created \cup {[path |-> OutDir, format |-> "directory", by |-> "mkdir"]}
    /\ Ok(<<Entry(s, {}, "none", IF ShellExitCode(s) = 0 THEN "ok" ELSE "exit_nonzero")>>)
    /\ UNCHANGED <<env, frames, pyvars, ax, maps, written, overlays, warnings>>

\* filepath = "...", outfp = "..." (lines 55, 401, 469)
Assign ==
  LET s == Cur IN
    /\ At(s, "assign")
    /\ pyvars' = [pyvars EXCEPT ![s.dst] = s.arg]
    /\ Ok(<<Entry(s, {}, "none", "ok")>>)
    /\ UNCHANGED <<env, frames, ax, maps, created, written, overlays, shellExit, warnings>>

\* gpd.read_file(...), lines 58 and 320
ReadPath(s) == IF s.arg = "filepath" THEN pyvars["filepath"] ELSE s.arg

ReadFile ==
  LET s == Cur IN
    /\ At(s, "read_file")
    /\ IF ~Exists(ReadPath(s)) THEN Raise(s)
       ELSE /\ frames' = [frames EXCEPT ![s.dst] =
                            IF ReadPath(s) = ShpPath THEN ReadShp(env) ELSE ReadHealth]
            /\ Ok(<<Entry(s, {DatasetOf(s.dst)}, LOAD, "ok")>>)
            /\ UNCHANGED <<env, pyvars, ax, maps, created, written, overlays,
                           shellExit, warnings>>

\* Expression statements that read a frame: head(), columns, iloc[0], bounds,
\* boundary, crs, area, total_bounds, dtypes, print, dissolve().centroid.
InspectFails(s) ==
  \/ ~Defined(s.frame)
  \/ s.arg \in {"iloc0", "dissolve_centroid"} /\ Len(frames[s.frame].rows) = 0

Inspect ==
  LET s == Cur IN
    /\ At(s, "inspect")
    /\ IF InspectFails(s) THEN Raise(s)
       ELSE /\ warnings' =
                 IF s.arg \in {"area", "dissolve_centroid"} /\ frames[s.frame].crs = "4326"
                 THEN warnings \cup {s.line} ELSE warnings
            /\ Ok(<<Entry(s, {DatasetOf(s.frame)}, INSPECT, "ok")>>)
            /\ UNCHANGED <<env, frames, pyvars, ax, maps, created, written, overlays,
                           shellExit>>

\* Expression statements that read no frame: ctx.providers, xyz, m, poly.
Display ==
  LET s == Cur IN
    /\ At(s, "display")
    /\ IF s.arg = "m" /\ ~maps.defined THEN Raise(s)
       ELSE /\ Ok(<<Entry(s, {}, "none", "ok")>>)
            /\ UNCHANGED <<env, frames, pyvars, ax, maps, created, written, overlays,
                           shellExit, warnings>>

\* data_in_3857 = data.to_crs('epsg:3857'), line 143: a frame without a CRS
\* cannot be transformed.
ToCrsStmt ==
  LET s == Cur IN
    /\ At(s, "to_crs")
    /\ IF ~Defined(s.frame) \/ frames[s.frame].crs = "none" THEN Raise(s)
       ELSE /\ frames' = [frames EXCEPT ![s.dst] = ToCrs(frames[s.frame], s.crs)]
            /\ Ok(<<Entry(s, {DatasetOf(s.frame)}, REPROJECT, "ok")>>)
            /\ UNCHANGED <<env, pyvars, ax, maps, created, written, overlays,
                           shellExit, warnings>>

\* frame.plot(...) and frame.to_crs(epsg=3857).plot(...): a new axes unless
\* ax=ax is passed (line 278).
PlotFails(s) ==
  \/ ~Defined(s.frame)
  \/ s.arg # "" /\ s.arg \notin frames[s.frame].cols
  \/ s.crs # "" /\ frames[s.frame].crs = "none"
  \/ s.dst = "" /\ ~ax.defined

Drawn(s, fr) ==
  [frame |-> s.frame, crs |-> PlottedFrame(s, fr).crs, cs |-> CsOf(PlottedFrame(s, fr))]

Plot ==
  LET s == Cur IN
    /\ At(s, "plot")
    /\ IF PlotFails(s) THEN Raise(s)
       ELSE /\ ax' = IF s.dst = "ax"
                     THEN [NewAx EXCEPT !.drawn = {Drawn(s, frames)}]
                     ELSE [ax EXCEPT !.drawn = @ \cup {Drawn(s, frames)}]
            /\ overlays' =
                 IF s.dst = "" /\ ax.image # "none"
                 THEN overlays \cup
                        {[line |-> s.line, kind |-> "image", crs |-> ax.image,
                          drawn |-> Drawn(s, frames).cs,
                          tags |-> {Drawn(s, frames).crs}, lim |-> ax.lim]}
                 ELSE overlays
            /\ Ok((IF s.crs = "" THEN <<>>
                   ELSE <<Entry(s, {DatasetOf(s.frame)}, REPROJECT, "ok")>>)
                  \o <<Entry(s, {DatasetOf(s.frame)}, RENDER, "ok")>>)
            /\ UNCHANGED <<env, frames, pyvars, maps, created, written,
                           shellExit, warnings>>

\* ax.set_title, set_xlabel, set_ylabel, plt.show, plt.axis('off'),
\* ax.set_axis_off
Decorate ==
  LET s == Cur IN
    /\ At(s, "decorate")
    /\ IF ~ax.defined THEN Raise(s)
       ELSE /\ Ok(<<Entry(s, {}, "none", "ok")>>)
            /\ UNCHANGED <<env, frames, pyvars, ax, maps, created, written, overlays,
                           shellExit, warnings>>

\* ax.set_xlim / set_ylim with literal degrees (229, 230); ax.set(xlim=...,
\* ylim=...) from ax_bounds (280)
SetLim ==
  LET s == Cur IN
    /\ At(s, "set_lim")
    /\ IF ~ax.defined \/ (s.arg = "ax_bounds" /\ pyvars["ax_bounds"] = "undefined")
       THEN Raise(s)
       ELSE /\ ax' = [ax EXCEPT !.lim = IF s.arg = "literal" THEN "literal"
                                        ELSE pyvars["ax_bounds"]]
            /\ Ok(<<Entry(s, {}, "none", "ok")>>)
            /\ UNCHANGED <<env, frames, pyvars, maps, created, written, overlays,
                           shellExit, warnings>>

\* ctx.add_basemap(ax, [crs=data.crs,] source=...): tiles are fetched over the
\* network and placed in the given CRS.
AddBasemapFails(s) ==
  \/ ~ax.defined
  \/ s.crs = "frame.crs" /\ ~Defined(s.frame)
  \/ ~env.network

AxDatasets == {DatasetOf(d.frame) : d \in ax.drawn}

AddBasemap ==
  LET s == Cur IN
    /\ At(s, "add_basemap")
    /\ IF AddBasemapFails(s) THEN Raise(s)
       ELSE /\ ax' = [ax EXCEPT !.basemaps = @ \cup {BasemapCrs(s, frames)}]
            /\ overlays' = overlays \cup
                 {[line |-> s.line, kind |-> "basemap", crs |-> BasemapCrs(s, frames),
                   drawn |-> UNION {d.cs : d \in ax.drawn},
                   tags |-> {d.crs : d \in ax.drawn}, lim |-> ax.lim]}
            /\ Ok(<<Entry(s, AxDatasets, BASEMAP, "ok")>>)
            /\ UNCHANGED <<env, frames, pyvars, maps, created, written, shellExit,
                           warnings>>

\* The coordinate system the numbers of frame.total_bounds are in.
BoundsCs(f) == IF Len(f.rows) = 0 THEN "nan" ELSE CHOOSE c \in CsOf(f) : TRUE

\* w,s,e,n = data.total_bounds (264); ax_bounds =
\* data.to_crs(epsg=3857).total_bounds (279)
TotalBounds ==
  LET s == Cur IN
    /\ At(s, "total_bounds")
    /\ IF ~Defined(s.frame) \/ (s.crs # "" /\ frames[s.frame].crs = "none") THEN Raise(s)
       ELSE /\ pyvars' = [pyvars EXCEPT ![s.dst] =
                 BoundsCs(IF s.crs = "" THEN frames[s.frame]
                          ELSE ToCrs(frames[s.frame], s.crs))]
            /\ Ok(IF s.crs = "" THEN <<Entry(s, {DatasetOf(s.frame)}, INSPECT, "ok")>>
                  ELSE <<Entry(s, {DatasetOf(s.frame)}, REPROJECT, "ok")>>)
            /\ UNCHANGED <<env, frames, ax, maps, created, written, overlays,
                           shellExit, warnings>>

\* img, ext = ctx.bounds2img(w, s, e, n, 6, ll=True, ...), line 273: the
\* bounds are read as lon/lat and the image comes back in EPSG:3857.  With
\* bounds that are not lon/lat the library either rejects them or fetches
\* tiles of some other place.
Bounds2Img ==
  LET s == Cur IN
    /\ At(s, "bounds2img")
    /\ \E rejected \in BOOLEAN :
         IF \/ pyvars["wsen"] = "undefined"
            \/ ~env.network
            \/ pyvars["wsen"] # "4326" /\ rejected
         THEN Raise(s)
         ELSE /\ pyvars' = [pyvars EXCEPT ![s.dst] = "3857"]
              /\ Ok(<<Entry(s, {}, "none", "ok")>>)
              /\ UNCHANGED <<env, frames, ax, maps, created, written, overlays,
                             shellExit, warnings>>

\* fig = plt.figure(); ax = fig.add_subplot(1,1,1), lines 274-275
Figure ==
  LET s == Cur IN
    /\ At(s, "figure")
    /\ ax' = NewAx
    /\ Ok(<<Entry(s, {}, "none", "ok")>>)
    /\ UNCHANGED <<env, frames, pyvars, maps, created, written, overlays,
                   shellExit, warnings>>

\* ax.imshow(img, extent=ext), line 276
Imshow ==
  LET s == Cur IN
    /\ At(s, "imshow")
    /\ IF ~ax.defined \/ pyvars["img"] = "undefined" THEN Raise(s)
       ELSE /\ ax' = [ax EXCEPT !.image = pyvars["img"]]
            /\ Ok(<<Entry(s, {}, "none", "ok")>>)
            /\ UNCHANGED <<env, frames, pyvars, maps, created, written, overlays,
                           shellExit, warnings>>

\* plt.savefig('....png'), lines 282 and 482
Savefig ==
  LET s == Cur IN
    /\ At(s, "savefig")
    /\ created' = created \cup {[path |-> s.arg, format |-> "PNG", by |-> "savefig"]}
    /\ Ok(<<Entry(s, {}, "none", "ok")>>)
    /\ UNCHANGED <<env, frames, pyvars, ax, maps, written, overlays, shellExit,
                   warnings>>

\* frame.explore(...): an interactive folium map; m=m adds a layer to m.
\* Line 328 passes every column, a datetime column among them.
ExploreFails(s) ==
  \/ ~Defined(s.frame)
  \/ s.arg = "FloodClass" /\ s.arg \notin frames[s.frame].cols
  \/ s.arg = "all" /\ frames[s.frame].tsType = "datetime" /\ env.tsBreaksExplore
  \/ s.crs = "m" /\ ~maps.defined

Explore ==
  LET s == Cur IN
    /\ At(s, "explore")
    /\ IF ExploreFails(s) THEN Raise(s)
       ELSE /\ maps' = IF s.dst = "" THEN maps
                       ELSE [defined |-> TRUE,
                             layers |-> (IF s.crs = "m" THEN maps.layers ELSE <<>>)
                                        \o <<s.frame>>]
            /\ Ok(<<Entry(s, {DatasetOf(s.frame)}, EXPORT, "ok")>>)
            /\ UNCHANGED <<env, frames, pyvars, ax, created, written, overlays,
                           shellExit, warnings>>

\* health_sites_gdf['changeset_timestamp'] = ....astype(str), line 341
AsType ==
  LET s == Cur IN
    /\ At(s, "astype")
    /\ IF ~Defined(s.frame) \/ s.arg \notin frames[s.frame].cols THEN Raise(s)
       ELSE /\ frames' = [frames EXCEPT ![s.frame].tsType = "str"]
            /\ Ok(<<Entry(s, {}, "none", "ok")>>)
            /\ UNCHANGED <<env, pyvars, ax, maps, created, written, overlays,
                           shellExit, warnings>>

\* m = folium.Map(...) (366); folium.LayerControl().add_to(m) (383)
Folium ==
  LET s == Cur IN
    /\ At(s, "folium")
    /\ IF s.arg = "LayerControl" /\ ~maps.defined THEN Raise(s)
       ELSE /\ maps' = IF s.arg = "Map" THEN [defined |-> TRUE, layers |-> <<>>]
                       ELSE [maps EXCEPT !.layers = Append(@, "LayerControl")]
            /\ Ok(<<Entry(s, {}, "none", "ok")>>)
            /\ UNCHANGED <<env, frames, pyvars, ax, created, written, overlays,
                           shellExit, warnings>>

\* selection = data[0:20], line 404
Slice ==
  LET s == Cur IN
    /\ At(s, "slice")
    /\ IF ~Defined(s.frame) THEN Raise(s)
       ELSE /\ frames' = [frames EXCEPT ![s.dst] = SelectRows(frames[s.frame])]
            /\ Ok(<<Entry(s, {}, "none", "ok")>>)
            /\ UNCHANGED <<env, pyvars, ax, maps, created, written, overlays,
                           shellExit, warnings>>

\* frame.to_file(outfp[, driver='GeoJSON']), lines 407 and 472
ToFileFails(s) ==
  \/ ~Defined(s.frame)
  \/ pyvars["outfp"] = "undefined"
  \/ ~IsDir(ParentOf(pyvars["outfp"]))

ToFile ==
  LET s == Cur IN
    /\ At(s, "to_file")
    /\ IF ToFileFails(s) THEN Raise(s)
       ELSE /\ created' = created \cup
                 ToFileOutputs(pyvars["outfp"], ToFileDriver(s, pyvars["outfp"]))
            /\ written' = written \cup
                 {[path |-> pyvars["outfp"], driver |-> ToFileDriver(s, pyvars["outfp"]),
                   frame |-> s.frame, rows |-> frames[s.frame].rows,
                   crs |-> frames[s.frame].crs, line |-> s.line]}
            /\ Ok(<<Entry(s, {DatasetOf(s.frame)}, EXPORT, "ok")>>)
            /\ UNCHANGED <<env, frames, pyvars, ax, maps, overlays, shellExit, warnings>>

\* newdata = gpd.GeoDataFrame(), line 417: no rows, no columns, no CRS
EmptyFrame == [rows |-> <<>>, crs |-> "none", cols |-> {}, tsType |-> "absent"]

NewFrame ==
  LET s == Cur IN
    /\ At(s, "new_frame")
    /\ frames' = [frames EXCEPT ![s.dst] = EmptyFrame]
    /\ Ok(<<Entry(s, {DatasetOf(s.dst)}, LOAD, "ok")>>)
    /\ UNCHANGED <<env, pyvars, ax, maps, created, written, overlays, shellExit,
                   warnings>>

\* poly = Polygon(coordinates), lines 430-433: coordinates in decimal degrees
MakePolygon ==
  LET s == Cur IN
    /\ At(s, "polygon")
    /\ pyvars' = [pyvars EXCEPT ![s.dst] = "Polygon"]
    /\ Ok(<<Entry(s, {}, "none", "ok")>>)
    /\ UNCHANGED <<env, frames, ax, maps, created, written, overlays, shellExit,
                   warnings>>

\* newdata['geometry'] = None (420); newdata.loc[0, 'geometry'] = poly (443);
\* newdata.loc[0, 'location'] = 'MIT main campus' (450)
SetItem ==
  LET s == Cur IN
    /\ At(s, "setitem")
    /\ IF ~Defined(s.frame) \/ (s.arg = "loc_geometry" /\ pyvars["poly"] = "undefined")
       THEN Raise(s)
       ELSE /\ frames' = [frames EXCEPT ![s.frame] =
                 CASE s.arg = "geometry" -> [@ EXCEPT !.cols = @ \cup {"geometry"}]
                   [] s.arg = "loc_geometry" ->
                        [@ EXCEPT !.rows = << [fid |-> 0, FloodClass |-> 0,
                                               geom |-> [kind |-> pyvars["poly"],
                                                         cs |-> "4326"]] >>]
                   [] OTHER -> [@ EXCEPT !.cols = @ \cup {"location"}]]
            /\ Ok(<<Entry(s, {}, "none", "ok")>>)
            /\ UNCHANGED <<env, pyvars, ax, maps, created, written, overlays,
                           shellExit, warnings>>

\* newdata = newdata.set_crs('epsg:4326'), line 460: refused when the frame
\* already carries another CRS.
SetCrsStmt ==
  LET s == Cur IN
    /\ At(s, "set_crs")
    /\ IF ~Defined(s.frame) \/ frames[s.frame].crs \notin {"none", s.crs} THEN Raise(s)
       ELSE /\ frames' = [frames EXCEPT ![s.dst] = SetCrs(frames[s.frame], s.crs)]
            /\ Ok(<<Entry(s, {DatasetOf(s.frame)}, REPROJECT, "ok")>>)
            /\ UNCHANGED <<env, pyvars, ax, maps, created, written, overlays,
                           shellExit, warnings>>

\* The last statement has run.
Finish ==
  /\ status = "running"
  /\ pc > Len(Prog)
  /\ status' = "done"
  /\ UNCHANGED <<pc, raisedAt, trace, env, frames, pyvars, ax, maps, created,
                 written, overlays, shellExit, warnings>>

Next ==
  \/ System \/ Assign \/ ReadFile \/ Inspect \/ Display \/ ToCrsStmt \/ Plot
  \/ Decorate \/ SetLim \/ AddBasemap \/ TotalBounds \/ Bounds2Img \/ Figure
  \/ Imshow \/ Savefig \/ Explore \/ AsType \/ Folium \/ Slice \/ ToFile
  \/ NewFrame \/ MakePolygon \/ SetItem \/ SetCrsStmt \/ Finish

Spec == Init /\ [][Next]_vars

------------------------------------------------------------------------------
(* Properties.                                                              *)

Stages == <<LOAD, INSPECT, REPROJECT, RENDER, BASEMAP, EXPORT>>
StageNo(x) == CHOOSE i \in DOMAIN Stages : Stages[i] = x
Staged(i) == trace[i].stage # "none"
Idx == DOMAIN trace

\* C1 as stated: every failing step, the shell steps included, raises at
\* that step and is the last step of the run.
C1_EveryFailureRaises ==
  \A i \in Idx : trace[i].outcome # "ok" =>
                   trace[i].outcome = "raised" /\ i = Len(trace)

\* C1, amended: an exception raised by a Python call is never caught: it is
\* the last step of the run, at the line recorded.  A shell step (unzip,
\* mkdir) that exits non-zero raises nothing and the run goes on; its failure
\* surfaces at the first call that needs what it should have produced
\* (read_file at 58 after unzip, to_file at 407 after mkdir).
C1_ExceptionsStopShellFailuresDoNot ==
  /\ \A i \in Idx : trace[i].outcome = "raised" =>
        /\ i = Len(trace)
        /\ status = "raised"
        /\ raisedAt = trace[i].line
        /\ Cur.line = trace[i].line
        /\ trace[i].op # "system"
  /\ status = "raised" => Len(trace) > 0 /\ trace[Len(trace)].outcome = "raised"
  /\ \A x \in shellExit : x.code # 0 =>
        \E i \in Idx : /\ trace[i].line = x.line
                       /\ trace[i].outcome = "exit_nonzero"
                       /\ (i = Len(trace) => status = "running" /\ Prog[pc - 1].line = x.line)
  /\ \A i \in Idx : trace[i].outcome = "exit_nonzero" /\ trace[i].line = 48
                      /\ Len(trace) >= i + 2 =>
        trace[i + 2].line = 58 /\ trace[i + 2].outcome = "raised"
  /\ \A i \in Idx : trace[i].outcome = "exit_nonzero" /\ trace[i].line = 394
                      /\ Len(trace) >= i + 3 =>
        trace[i + 3].line = 407 /\ trace[i + 3].outcome = "raised"

\* C1 witness: mkdir failed at 394 without raising and the run went on to
\* to_file at 407, which raised and ended the run.
C1_Witness ==
  /\ status = "raised" /\ raisedAt = 407
  /\ \E x \in shellExit : x.line = 394 /\ x.code # 0

\* C2 as stated: for each dataset the stages applied to it never go back
\* in the pipeline order load, inspect, reproject, render, basemap, export.
C2_StagesInPipelineOrder ==
  \A i, j \in Idx :
    i < j /\ Staged(i) /\ Staged(j) /\ trace[i].dss \cap trace[j].dss # {} =>
      StageNo(trace[i].stage) <= StageNo(trace[j].stage)

IsWrite(i, d) == trace[i].op = "to_file" /\ d \in trace[i].dss
IsDrawing(i, d) == trace[i].stage \in {RENDER, BASEMAP} /\ d \in trace[i].dss

\* C2, amended: for every dataset the load/create step comes before every
\* other stage applied to it.  The later stages are not in pipeline order.
\* For the flood-risk and health-sites data no file write precedes a plot or
\* basemap overlay; newdata is written to its file (472) before it is
\* reprojected, plotted and overlaid (479-480).
C2_LoadFirstWriteOrder ==
  /\ \A j \in Idx : \A d \in trace[j].dss :
        Staged(j) /\ trace[j].stage # LOAD =>
          \E i \in Idx : i < j /\ trace[i].stage = LOAD /\ d \in trace[i].dss
  /\ \A i, j \in Idx : \A d \in {"data", "health"} :
        IsWrite(i, d) /\ IsDrawing(j, d) => j < i
  /\ \A j \in Idx : IsDrawing(j, "newdata") =>
        \E i \in Idx : i < j /\ IsWrite(i, "newdata")

\* C2 witness: a complete run, in which all three datasets went through
\* their stages and newdata was drawn after it was written.
C2_Witness ==
  /\ status = "done"
  /\ \E i, j \in Idx : i < j /\ IsWrite(i, "newdata") /\ IsDrawing(j, "newdata")
  /\ \E i \in Idx : IsWrite(i, "data")
  /\ \E i \in Idx : trace[i].stage = EXPORT /\ "health" \in trace[i].dss

\* C3 as stated: every file the run has created is a GeoJSON or Shapefile
\* vector file.
C3_OnlyVectorFiles ==
  \A c \in created : c.format \in {"GeoJSON", "ESRI Shapefile"}

\* C3, amended: the vector files are written by to_file, data_selection.json
\* as GeoJSON and MIT_campus.shp as a Shapefile; besides them the run
\* creates the extracted archive members and the output directory (shell
\* steps) and two PNG images (plt.savefig), and nothing else.
C3_CreatedFileKinds ==
  /\ \A c \in created :
       \/ c.by = "to_file" /\ c.format \in {"GeoJSON", "ESRI Shapefile"}
       \/ c.by = "savefig" /\ c.format = "PNG"
       \/ c.by = "unzip" /\ c.format \in {"archive member", "directory"}
       \/ c.by = "mkdir" /\ c.format = "directory"
  /\ \A w \in written :
       /\ w.path = SelPath => w.driver = "GeoJSON"
       /\ w.path = MitPath => w.driver = "ESRI Shapefile"
       /\ \E c \in created : c.path = w.path /\ c.format = w.driver /\ c.by = "to_file"
  /\ status = "done" =>
       /\ {c.path : c \in {x \in created : x.by = "savefig"}} =
            {"watercolor_example.png", "MIT_main_campus_poly.png"}
       /\ {w.path : w \in written} = {SelPath, MitPath}

\* C3 witness: a complete run; both vector files and a PNG are on disk.
C3_Witness ==
  /\ status = "done"
  /\ \E c \in created : c.format = "GeoJSON"
  /\ \E c \in created : c.format = "ESRI Shapefile"
  /\ \E c \in created : c.format = "PNG"

\* C4: every frame written by to_file has a CRS.  newdata is written after
\* its set_crs step and as EPSG:4326; selection is written with the CRS
\* data had when it was loaded.
C4_WrittenFramesHaveCrs ==
  \A w \in written :
    /\ w.crs \in {"4326", "3857"}
    /\ w.frame = "newdata" =>
         /\ w.crs = "4326"
         /\ \E i, j \in Idx : /\ i < j
                              /\ trace[i].op = "set_crs" /\ trace[i].outcome = "ok"
                              /\ "newdata" \in trace[i].dss
                              /\ trace[j].line = w.line
    /\ w.frame = "selection" => w.crs = ReadShp(env).crs

\* C4 witness: both to_file calls have written their frame.
C4_Witness ==
  /\ \E w \in written : w.frame = "newdata"
  /\ \E w \in written : w.frame = "selection"

\* C5: selection is rows 0 .. min(20, n)-1 of the loaded shapefile, in
\* order and unchanged, it is what is written to data_selection.json, and
\* data stays as loaded.
C5_SelectionIsFirstRows ==
  /\ Defined("data") => frames["data"] = ReadShp(env)
  /\ Defined("selection") =>
       /\ Len(frames["selection"].rows) = Min(SelectionStop, env.rows)
       /\ \A i \in DOMAIN frames["selection"].rows :
            frames["selection"].rows[i] = ReadShp(env).rows[i]
       /\ frames["selection"].crs = ReadShp(env).crs
       /\ frames["selection"].cols = ReadShp(env).cols
  /\ \A w \in written : w.path = SelPath =>
       /\ w.frame = "selection"
       /\ w.rows = frames["selection"].rows

\* C5 witness: a shapefile with more than 20 rows was loaded and its
\* selection written.
C5_Witness ==
  /\ env.rows > SelectionStop
  /\ \E w \in written : w.path = SelPath

\* C6: at every basemap overlay the basemap's CRS is the CRS of the data
\* drawn on those axes (its tag and its coordinates); data drawn over the
\* bounds2img image is in EPSG:3857 like the image, and axis limits taken
\* from bounds are in the image's CRS.
C6_BasemapMatchesData ==
  /\ \A o \in overlays :
       /\ o.drawn = {o.crs}
       /\ o.tags = {o.crs}
       /\ o.kind = "image" => o.crs = "3857"
       /\ o.line = 480 => o.crs = "3857"
  /\ ax.image # "none" /\ ax.lim \notin {"auto", "literal"} => ax.lim = ax.image
  /\ \A i \in Idx : trace[i].line = 280 /\ trace[i].outcome = "ok" /\ i = Len(trace)
       => ax.lim = "3857" /\ ax.image = "3857"

\* C6 witness: a complete run on WGS84 data: basemaps were laid under
\* EPSG:4326 data (221) and under EPSG:3857 data (480), and data was drawn
\* over the downloaded image (278).
C6_Witness ==
  /\ status = "done"
  /\ \E o \in overlays : o.line = 221 /\ o.crs = "4326"
  /\ \E o \in overlays : o.line = 480 /\ o.crs = "3857"
  /\ \E o \in overlays : o.line = 278 /\ o.kind = "image"

====
